---- MODULE Spec2Model ----
(***************************************************************************)
(* Model of new-app-with-retry.py: the POST /predict handler, its input    *)
(* normalisation, its retry loop around the completion call, the           *)
(* extraction and validation of the model's reply, and the mapping of      *)
(* every outcome to an HTTP response.                                      *)
(*                                                                         *)
(* One behaviour is the handling of one request.  Strings that the code    *)
(* takes apart are sequences: a name is a sequence of characters, a reply  *)
(* of the model is a sequence of lexical tokens.                           *)
(***************************************************************************)
EXTENDS Integers, Sequences, FiniteSets, TLC

(***************************************************************************)
(* Bounds of the model.                                                    *)
(***************************************************************************)
MaxNameLen == 3

(***************************************************************************)
(* Python's None, for the three locals that start as None.                 *)
(***************************************************************************)
None == "None"

(***************************************************************************)
(* Whitespace is what str.strip() and the regular expression \s treat as   *)
(* whitespace.  A submitted name is made of letters, spaces and tabs.      *)
(***************************************************************************)
Whitespace == {" ", "\t", "\n"}

Letters == {"a", "b"}

Chars == Letters \cup {" ", "\t"}

RECURSIVE StringsUpTo(_)
StringsUpTo(n) ==
    IF n = 0 THEN {<<>>}
    ELSE LET shorter == StringsUpTo(n - 1)
         IN  shorter \cup {Append(s, c) : s \in {t \in shorter : Len(t) = n - 1}, c \in Chars}

(***************************************************************************)
(* str.strip(): drop leading and trailing whitespace.                      *)
(***************************************************************************)
RECURSIVE lstrip(_)
lstrip(s) ==
    IF s # <<>> /\ Head(s) \in Whitespace THEN lstrip(Tail(s)) ELSE s

RECURSIVE rstrip(_)
rstrip(s) ==
    IF s # <<>> /\ s[Len(s)] \in Whitespace THEN rstrip(SubSeq(s, 1, Len(s) - 1)) ELSE s

strip(s) == rstrip(lstrip(s))

re_sub_each_space(s) == [i \in 1..Len(s) |-> IF s[i] \in Whitespace THEN " " ELSE s[i]]

(***************************************************************************)
(* re.sub(r'\s+', ' ', s): every maximal run of whitespace becomes one     *)
(* space.                                                                  *)
(***************************************************************************)
RECURSIVE re_sub_spaces(_)
re_sub_spaces(s) ==
    IF s = <<>> THEN <<>>
    ELSE IF Head(s) \in Whitespace THEN <<" ">> \o re_sub_spaces(lstrip(s))
    ELSE <<Head(s)>> \o re_sub_spaces(Tail(s))

normalize_without_strip(raw) == re_sub_spaces(raw)

normalize_dropping_one_blank(raw) ==
    re_sub_spaces(IF raw # <<>> /\ Head(raw) \in Whitespace THEN Tail(raw) ELSE raw)

(***************************************************************************)
(* Lines 45-46: name = data.get('name', '').strip();                       *)
(*              name = re.sub(r'\s+', ' ', name).strip()                   *)
(***************************************************************************)
normalize(raw) == strip(re_sub_spaces(strip(raw)))

(***************************************************************************)
(* JSON values of a request body, as request.get_json() hands them over.   *)
(* Every value is a record of the same shape: t is the JSON type, n the    *)
(* number (the truth value of a bool, the length of an array), s the       *)
(* characters of a string, o the members of an object.                     *)
(***************************************************************************)
NoMembers == [k \in {} |-> [t |-> "null", n |-> 0, s |-> <<>>]]

JScalar(t, n, s) == [t |-> t, n |-> n, s |-> s]

JValue(t, n, s, o) == [t |-> t, n |-> n, s |-> s, o |-> o]

JNull == JScalar("null", 0, <<>>)

JNum(n) == JScalar("num", n, <<>>)

JStr(s) == JScalar("str", 0, s)

Lift(v) == JValue(v.t, v.n, v.s, NoMembers)

JArr(len) == JValue("arr", len, <<>>, NoMembers)

JObj(o) == JValue("obj", 0, <<>>, o)

NameValues == {JNull, JNum(0), JNum(7)} \cup {JStr(s) : s \in StringsUpTo(MaxNameLen)}

OtherValues == {JStr(<<"a">>)}

Objects ==
    {JObj(NoMembers)}
    \cup {JObj([k \in {"other"} |-> v]) : v \in OtherValues}
    \cup {JObj([k \in {"name"} |-> v]) : v \in NameValues}
    \cup {JObj([k \in {"name", "other"} |-> IF k = "name" THEN JStr(<<"a", " ", "b">>) ELSE w]) :
              w \in OtherValues}

NonObjects ==
    {Lift(JNull), Lift(JScalar("bool", 0, <<>>)), Lift(JScalar("bool", 1, <<>>)),
     Lift(JNum(0)), Lift(JNum(7)), Lift(JStr(<<>>)), Lift(JStr(<<"a">>)),
     JArr(0), JArr(1)}

(***************************************************************************)
(* A request: what is on the wire.  "badjson" is a body with the JSON      *)
(* content type that does not parse; "notjson_mime" a body sent with       *)
(* another content type; "json" a body that parses to data.                *)
(***************************************************************************)
Requests ==
    {[wire |-> "badjson", data |-> Lift(JNull)],
     [wire |-> "notjson_mime", data |-> Lift(JNull)]}
    \cup {[wire |-> "json", data |-> d] : d \in Objects \cup NonObjects}

(***************************************************************************)
(* Python truth value of a parsed body (line 42, `if not data`).           *)
(***************************************************************************)
truthy(d) ==
    CASE d.t = "null" -> FALSE
      [] d.t \in {"bool", "num", "arr"} -> d.n # 0
      [] d.t = "str" -> d.s # <<>>
      [] d.t = "obj" -> DOMAIN d.o # {}

get_name_or_empty(d) ==
    IF "name" \in DOMAIN d.o /\ d.o["name"].t = "str" THEN d.o["name"] ELSE JStr(<<>>)

(***************************************************************************)
(* data.get('name', '') of line 45.                                        *)
(***************************************************************************)
get_name(d) == IF "name" \in DOMAIN d.o THEN d.o["name"] ELSE JStr(<<>>)

(***************************************************************************)
(* The text of a model reply is a sequence of lexical tokens: the fence    *)
(* markers, whitespace, JSON punctuation, JSON scalars and plain words.    *)
(* Only the token "}" contains a closing brace, only the fence tokens      *)
(* contain backticks, and only the whitespace tokens contain whitespace at *)
(* their ends.  In a token, ' is written for the backtick.                 *)
(***************************************************************************)
JsonFences == {"'''json", "'''JSON"}

Backticks == JsonFences \cup {"'''"}

StringLexemes ==
    {"\"prediction\"", "\"reason\"", "\"Realistic\"", "\"Not Realistic\"",
     "\"realistic\"", "\"Realistic \"", "\"maybe\"", "\"too short\""}

ScalarLexemes == StringLexemes \cup {"null", "1"}

(***************************************************************************)
(* The Python value json.loads() makes of a scalar, as str() prints it.    *)
(***************************************************************************)
py_value(lexeme) ==
    CASE lexeme = "\"prediction\"" -> "prediction"
      [] lexeme = "\"reason\"" -> "reason"
      [] lexeme = "\"Realistic\"" -> "Realistic"
      [] lexeme = "\"Not Realistic\"" -> "Not Realistic"
      [] lexeme = "\"realistic\"" -> "realistic"
      [] lexeme = "\"Realistic \"" -> "Realistic "
      [] lexeme = "\"maybe\"" -> "maybe"
      [] lexeme = "\"too short\"" -> "too short"
      [] lexeme = "null" -> None
      [] lexeme = "1" -> "1"

(***************************************************************************)
(* The Python type json.loads() makes of a scalar.                         *)
(***************************************************************************)
py_type(lexeme) ==
    CASE lexeme \in StringLexemes -> "str"
      [] lexeme = "null" -> "NoneType"
      [] lexeme = "1" -> "int"

(***************************************************************************)
(* First position from i on that does not hold whitespace (Len + 1 when    *)
(* there is none): where the regular expression stands after \s*.          *)
(***************************************************************************)
skip_spaces(text, i) ==
    CHOOSE j \in i..(Len(text) + 1) :
        /\ \A k \in i..(j - 1) : text[k] \in Whitespace
        /\ (j <= Len(text) => text[j] \notin Whitespace)

(***************************************************************************)
(* Line 29: re.search(r"```json\s*({.*?})\s*```", text, DOTALL|IGNORECASE) *)
(* closes_at: "}" at q, then \s*, then the closing backticks.              *)
(* match_at:  the fence marker at i, then \s*, then "{" and a close.       *)
(***************************************************************************)
closes_at(text, q) ==
    /\ text[q] = "}"
    /\ LET r == skip_spaces(text, q + 1)
       IN  r <= Len(text) /\ text[r] \in Backticks

match_at_case_sensitive(text, i) ==
    /\ text[i] = "'''json"
    /\ LET p == skip_spaces(text, i + 1)
       IN  /\ p <= Len(text)
           /\ text[p] = "{"
           /\ \E q \in (p + 1)..Len(text) : closes_at(text, q)

match_at(text, i) ==
    /\ text[i] \in JsonFences
    /\ LET p == skip_spaces(text, i + 1)
       IN  /\ p <= Len(text)
           /\ text[p] = "{"
           /\ \E q \in (p + 1)..Len(text) : closes_at(text, q)

Min(S) == CHOOSE x \in S : \A y \in S : x <= y

(***************************************************************************)
(* Lines 27-35.  The leftmost match wins and .*? stops at the first "}"    *)
(* after which the fence closes; without a match the stripped text is      *)
(* returned (both remaining branches return it).                           *)
(***************************************************************************)
extract_json_from_response(text) ==
    LET starts == {i \in 1..Len(text) : match_at(text, i)}
    IN  IF starts # {}
        THEN LET i == Min(starts)
                 p == skip_spaces(text, i + 1)
                 q == Min({k \in (p + 1)..Len(text) : closes_at(text, k)})
             IN  SubSeq(text, p, q)
        ELSE strip(text)

(***************************************************************************)
(* json.loads() on texts without nesting.  Whitespace between tokens does  *)
(* not count.  The result says whether the text parsed (ok; otherwise      *)
(* JSONDecodeError), the Python type of the value, and for a dict its      *)
(* members, a repeated key keeping its last value.                         *)
(***************************************************************************)
without_spaces(text) == SelectSeq(text, LAMBDA tok : tok \notin Whitespace)

NoDict == [k \in {} |-> ""]

json_loads(text) ==
    LET toks == without_spaces(text)
        n == Len(toks)
        inner == SubSeq(toks, 2, n - 1)
        m == Len(inner)
        is_list == /\ n >= 2 /\ toks[1] = "[" /\ toks[n] = "]"
                   /\ (m = 0 \/ m % 2 = 1)
                   /\ \A i \in 1..m : IF i % 2 = 1 THEN inner[i] \in ScalarLexemes
                                                  ELSE inner[i] = ","
        is_dict == /\ n >= 2 /\ toks[1] = "{" /\ toks[n] = "}"
                   /\ (m = 0 \/ m % 4 = 3)
                   /\ \A i \in 1..m :
                        CASE i % 4 = 1 -> inner[i] \in StringLexemes
                          [] i % 4 = 2 -> inner[i] = ":"
                          [] i % 4 = 3 -> inner[i] \in ScalarLexemes
                          [] i % 4 = 0 -> inner[i] = ","
        keys == {py_value(inner[i]) : i \in {j \in 1..m : j % 4 = 1}}
        last(k) == CHOOSE i \in 1..m :
                       /\ i % 4 = 1 /\ py_value(inner[i]) = k
                       /\ \A j \in (i + 1)..m : ~(j % 4 = 1 /\ py_value(inner[j]) = k)
    IN  IF n = 1 /\ toks[1] \in ScalarLexemes
        THEN [ok |-> TRUE, type |-> py_type(toks[1]), dict |-> NoDict]
        ELSE IF is_list THEN [ok |-> TRUE, type |-> "list", dict |-> NoDict]
        ELSE IF is_dict
        THEN [ok |-> TRUE, type |-> "dict",
              dict |-> [k \in keys |-> py_value(inner[last(k) + 2])]]
        ELSE [ok |-> FALSE, type |-> "NoneType", dict |-> NoDict]

(***************************************************************************)
(* result.get(key) of lines 102 and 108.                                   *)
(***************************************************************************)
dict_get(result, key) == IF key \in DOMAIN result.dict THEN result.dict[key] ELSE None

(***************************************************************************)
(* Replies of the model: bare and fenced objects, objects with an          *)
(* unrecognized prediction, JSON that is not an object, and text that is   *)
(* not JSON.                                                               *)
(***************************************************************************)
Obj(pred) == <<"{", "\"prediction\"", ":", pred, "}">>

ObjReason(pred) ==
    <<"{", "\"prediction\"", ":", pred, ",", "\"reason\"", ":", "\"too short\"", "}">>

Fenced(fence, text) == <<fence, "\n">> \o text \o <<"\n", "'''">>

RealisticReplies ==
    {Obj("\"Realistic\""), ObjReason("\"Realistic\""),
     Fenced("'''json", Obj("\"Realistic\"")),
     <<" ">> \o Obj("\"Realistic\"") \o <<"\n">>}

NotRealisticReplies ==
    {Obj("\"Not Realistic\""), ObjReason("\"Not Realistic\""),
     Fenced("'''JSON", ObjReason("\"Not Realistic\"")),
     <<"Sure", ":", "\n">> \o Fenced("'''json", Obj("\"Not Realistic\""))}

ValidReplies == RealisticReplies \cup NotRealisticReplies

InvalidPredictionReplies ==
    {Obj("\"maybe\""), Obj("\"realistic\""), Obj("\"Realistic \""), Obj("null"), Obj("1"),
     <<"{", "\"reason\"", ":", "\"too short\"", "}">>, <<"{", "}">>}

NotObjectReplies == {<<"[", "]">>, <<"\"Realistic\"">>}

NotJsonReplies ==
    {<<>>, <<"Realistic">>, <<"{", "\"prediction\"", ":">>,
     Fenced("'''", Obj("\"Realistic\"")),
     <<"Sure", ":", "\n">> \o Obj("\"Realistic\"")}

Replies ==
    ValidReplies \cup InvalidPredictionReplies \cup NotObjectReplies \cup NotJsonReplies

(***************************************************************************)
(* What one completion call can do (lines 86-96): raise, with the text of  *)
(* the exception; return a message without content; return a reply text.   *)
(***************************************************************************)
ApiErrors == {"Connection error.", "Request timed out."}

CallOutcomes ==
    {[kind |-> "raise", msg |-> m, content |-> <<>>] : m \in ApiErrors}
    \cup {[kind |-> "no_content", msg |-> "", content |-> <<>>]}
    \cup {[kind |-> "reply", msg |-> "", content |-> r] : r \in Replies}

(***************************************************************************)
(* Line 78 and the texts of the responses and errors.                      *)
(***************************************************************************)
one_more_retry == 3 + 1

max_retries == 3

InvalidJsonPayload == "Invalid JSON payload"

NoNameProvided == "No name provided"

UnexpectedServerError == "An unexpected server error occurred"

InvalidJsonResponse == "Invalid JSON response format from model"

InvalidPredictionPrefix == "Invalid prediction value from model: "

ApiErrorPrefix == "OpenAI API error: "

FailedPrefix == "Failed to get prediction. Last error: "

UnknownError == "Unknown error after retries"

no_attribute(type, attr) == "'" \o type \o "' object has no attribute '" \o attr \o "'"

Pow2_doubled(n) == 2 * n

RECURSIVE Pow2(_)
Pow2(n) == IF n = 0 THEN 1 ELSE 2 * Pow2(n - 1)

(***************************************************************************)
(* Lines 56-76 and 88-91: the messages of a call; the name is the only     *)
(* part that varies.                                                       *)
(***************************************************************************)
prompt(n) == [system |-> "You are a precise name classification assistant outputting only JSON.",
              user_name |-> n]

(***************************************************************************)
(* State of the handling of one request.                                   *)
(*   request     the request on the wire                                   *)
(*   pc          "start", "call" (at the head of a loop iteration),        *)
(*               "sleep" (inside time.sleep), "post" (after the loop),     *)
(*               "done" (returned)                                         *)
(*   name, attempt, wait_time, prediction_result, openai_error_message,    *)
(*   ai_reason   the locals of predict                                     *)
(*   calls       the completion calls issued, with what each did           *)
(*   sleeps      the backoff sleeps completed, in seconds                  *)
(*   responses   the responses returned to the client                      *)
(*   parked      the handler of a second request, in a thread that is not  *)
(*               running now                                               *)
(*   extraction  one application of extract_json_from_response             *)
(***************************************************************************)
VARIABLES request, pc, name, attempt, wait_time, prediction_result,
          openai_error_message, ai_reason, calls, sleeps, responses,
          parked, extraction

vars == <<request, pc, name, attempt, wait_time, prediction_result,
          openai_error_message, ai_reason, calls, sleeps, responses,
          parked, extraction>>

locals == <<name, attempt, wait_time, prediction_result, openai_error_message, ai_reason>>

(***************************************************************************)
(* The state of one handler as one value, for a second request that the    *)
(* host serves in another thread (line 163), and the state of a request    *)
(* that has just arrived.  NoRequest: no second request.                   *)
(***************************************************************************)
context ==
    [request |-> request, pc |-> pc, name |-> name, attempt |-> attempt,
     wait_time |-> wait_time, prediction_result |-> prediction_result,
     openai_error_message |-> openai_error_message, ai_reason |-> ai_reason,
     calls |-> calls, sleeps |-> sleeps, responses |-> responses]

fresh(req) ==
    [request |-> req, pc |-> "start", name |-> <<>>, attempt |-> 0,
     wait_time |-> 0, prediction_result |-> None,
     openai_error_message |-> None, ai_reason |-> None,
     calls |-> <<>>, sleeps |-> <<>>, responses |-> <<>>]

NoRequest == [fresh([wire |-> "badjson", data |-> Lift(JNull)]) EXCEPT !.pc = "none"]

(***************************************************************************)
(* The argument and the return value of one application of                 *)
(* extract_json_from_response (lines 27-35).                               *)
(***************************************************************************)
NoExtraction == [text |-> <<>>, returned |-> FALSE, value |-> <<>>]

Init ==
    /\ request \in Requests
    /\ pc = "start"
    /\ name = <<>>
    /\ attempt = 0
    /\ wait_time = 0
    /\ prediction_result = None
    /\ openai_error_message = None
    /\ ai_reason = None
    /\ calls = <<>>
    /\ sleeps = <<>>
    /\ responses = <<>>
    /\ parked = NoRequest
    /\ extraction = NoExtraction

respond_without_return(status, body) ==
    /\ responses' = Append(responses, [status |-> status, body |-> body])
    /\ pc' = pc

(***************************************************************************)
(* return jsonify(body), status                                            *)
(***************************************************************************)
respond(status, body) ==
    /\ responses' = Append(responses, [status |-> status, body |-> body])
    /\ pc' = "done"

(***************************************************************************)
(* request.get_json() of line 41: the parsed body, None, or an exception.  *)
(* A body that does not parse raises BadRequest.  A body with another      *)
(* content type gives None or raises UnsupportedMediaType, depending on    *)
(* the version of the framework.                                           *)
(***************************************************************************)
get_json(req) ==
    CASE req.wire = "badjson" -> {[raised |-> TRUE, data |-> Lift(JNull)]}
      [] req.wire = "notjson_mime" -> {[raised |-> TRUE, data |-> Lift(JNull)],
                                       [raised |-> FALSE, data |-> Lift(JNull)]}
      [] req.wire = "json" -> {[raised |-> FALSE, data |-> req.data]}

(***************************************************************************)
(* Lines 40-81 with the handler of lines 157-159: read the body, normalize *)
(* the name, reject or enter the retry loop.  The AttributeError of        *)
(* data.get on a body that is no object, and of .strip() on a name that is *)
(* no string, ends in the catch-all handler.                               *)
(***************************************************************************)
Receive ==
    /\ pc = "start"
    /\ \E got \in get_json(request) :
         IF got.raised
         THEN respond(500, [error |-> UnexpectedServerError]) /\ UNCHANGED locals
         ELSE IF ~truthy(got.data)
         THEN respond(400, [error |-> InvalidJsonPayload]) /\ UNCHANGED locals
         ELSE IF got.data.t # "obj" \/ get_name(got.data).t # "str"
         THEN respond(500, [error |-> UnexpectedServerError]) /\ UNCHANGED locals
         ELSE LET normalized == normalize(get_name(got.data).s)
              IN  /\ name' = normalized
                  /\ IF normalized = <<>>
                     THEN respond(400, [error |-> NoNameProvided])
                     ELSE pc' = "call" /\ UNCHANGED responses
                  /\ UNCHANGED <<attempt, wait_time, prediction_result,
                                 openai_error_message, ai_reason>>
    /\ UNCHANGED <<request, calls, sleeps>>
    /\ UNCHANGED <<parked, extraction>>

api_error_always_sleeps(text) ==
    /\ openai_error_message' = ApiErrorPrefix \o text
    /\ IF attempt < max_retries
       THEN /\ wait_time' = Pow2(attempt)
            /\ pc' = "sleep"
            /\ UNCHANGED responses
       ELSE /\ respond(500, [error |-> ApiErrorPrefix \o text])
            /\ UNCHANGED wait_time
    /\ UNCHANGED <<prediction_result, ai_reason>>

(***************************************************************************)
(* Lines 124-134: the handler of the outer try of one iteration.           *)
(***************************************************************************)
api_error(text) ==
    /\ openai_error_message' = ApiErrorPrefix \o text
    /\ IF attempt < max_retries - 1
       THEN /\ wait_time' = Pow2(attempt)
            /\ pc' = "sleep"
            /\ UNCHANGED responses
       ELSE /\ respond(500, [error |-> ApiErrorPrefix \o text])
            /\ UNCHANGED wait_time
    /\ UNCHANGED <<prediction_result, ai_reason>>

handle_reply_without_break(reply_content) ==
    LET json_str_to_parse == extract_json_from_response(reply_content)
        result == json_loads(json_str_to_parse)
        prediction_value == dict_get(result, "prediction")
    IN  IF ~result.ok
        THEN /\ openai_error_message' = InvalidJsonResponse
             /\ pc' = "post"
             /\ UNCHANGED <<prediction_result, ai_reason, wait_time, responses>>
        ELSE IF result.type # "dict"
        THEN api_error(no_attribute(result.type, "get"))
        ELSE IF prediction_value \notin {"Realistic", "Not Realistic"}
        THEN /\ openai_error_message' = InvalidPredictionPrefix \o prediction_value
             /\ pc' = "post"
             /\ UNCHANGED <<prediction_result, ai_reason, wait_time, responses>>
        ELSE /\ prediction_result' = prediction_value
             /\ ai_reason' = IF prediction_value = "Not Realistic"
                             THEN dict_get(result, "reason") ELSE None
             /\ openai_error_message' = None
             /\ wait_time' = 0
             /\ pc' = IF attempt < max_retries - 1 THEN "sleep" ELSE "post"
             /\ UNCHANGED responses

handle_reply_ignoring_case(reply_content) ==
    LET json_str_to_parse == extract_json_from_response(reply_content)
        result == json_loads(json_str_to_parse)
        given == dict_get(result, "prediction")
        prediction_value == IF given \in {"realistic", "Realistic "} THEN "Realistic"
                            ELSE given
    IN  IF ~result.ok
        THEN /\ openai_error_message' = InvalidJsonResponse
             /\ pc' = "post"
             /\ UNCHANGED <<prediction_result, ai_reason, wait_time, responses>>
        ELSE IF result.type # "dict"
        THEN api_error(no_attribute(result.type, "get"))
        ELSE IF prediction_value \notin {"Realistic", "Not Realistic"}
        THEN /\ openai_error_message' = InvalidPredictionPrefix \o prediction_value
             /\ pc' = "post"
             /\ UNCHANGED <<prediction_result, ai_reason, wait_time, responses>>
        ELSE /\ prediction_result' = prediction_value
             /\ ai_reason' = IF prediction_value = "Not Realistic"
                             THEN dict_get(result, "reason") ELSE None
             /\ openai_error_message' = None
             /\ pc' = "post"
             /\ UNCHANGED <<wait_time, responses>>

handle_reply_keeping_the_error(reply_content) ==
    LET json_str_to_parse == extract_json_from_response(reply_content)
        result == json_loads(json_str_to_parse)
        prediction_value == dict_get(result, "prediction")
    IN  IF ~result.ok
        THEN /\ openai_error_message' = InvalidJsonResponse
             /\ pc' = "post"
             /\ UNCHANGED <<prediction_result, ai_reason, wait_time, responses>>
        ELSE IF result.type # "dict"
        THEN api_error(no_attribute(result.type, "get"))
        ELSE IF prediction_value \notin {"Realistic", "Not Realistic"}
        THEN /\ openai_error_message' = InvalidPredictionPrefix \o prediction_value
             /\ pc' = "post"
             /\ UNCHANGED <<prediction_result, ai_reason, wait_time, responses>>
        ELSE /\ prediction_result' = prediction_value
             /\ ai_reason' = IF prediction_value = "Not Realistic"
                             THEN dict_get(result, "reason") ELSE None
             /\ pc' = "post"
             /\ UNCHANGED <<openai_error_message, wait_time, responses>>

(***************************************************************************)
(* Lines 98-122: extract, parse and validate a reply text.  result.get on  *)
(* a parsed value that is no dict raises AttributeError, which neither     *)
(* inner handler catches: it reaches the outer handler.                    *)
(***************************************************************************)
handle_reply(reply_content) ==
    LET json_str_to_parse == extract_json_from_response(reply_content)
        result == json_loads(json_str_to_parse)
        prediction_value == dict_get(result, "prediction")
    IN  IF ~result.ok
        THEN /\ openai_error_message' = InvalidJsonResponse
             /\ pc' = "post"
             /\ UNCHANGED <<prediction_result, ai_reason, wait_time, responses>>
        ELSE IF result.type # "dict"
        THEN api_error(no_attribute(result.type, "get"))
        ELSE IF prediction_value \notin {"Realistic", "Not Realistic"}
        THEN /\ openai_error_message' = InvalidPredictionPrefix \o prediction_value
             /\ pc' = "post"
             /\ UNCHANGED <<prediction_result, ai_reason, wait_time, responses>>
        ELSE /\ prediction_result' = prediction_value
             /\ ai_reason' = IF prediction_value = "Not Realistic"
                             THEN dict_get(result, "reason") ELSE None
             /\ openai_error_message' = None
             /\ pc' = "post"
             /\ UNCHANGED <<wait_time, responses>>

(***************************************************************************)
(* Lines 83-134: one iteration of the retry loop, up to its break, its     *)
(* return or its call of time.sleep.                                       *)
(***************************************************************************)
Attempt ==
    /\ pc = "call"
    /\ \E outcome \in CallOutcomes :
         /\ calls' = Append(calls, [messages |-> prompt(name), attempt |-> attempt,
                                    outcome |-> outcome])
         /\ CASE outcome.kind = "raise" -> api_error(outcome.msg)
              [] outcome.kind = "no_content" -> api_error(no_attribute("NoneType", "strip"))
              [] outcome.kind = "reply" -> handle_reply(strip(outcome.content))
    /\ UNCHANGED <<request, name, attempt, sleeps>>
    /\ UNCHANGED <<parked, extraction>>

Sleep_without_retry ==
    /\ pc = "sleep"
    /\ sleeps' = Append(sleeps, wait_time)
    /\ attempt' = attempt + 1
    /\ pc' = "post"
    /\ UNCHANGED <<request, name, wait_time, prediction_result, openai_error_message,
                   ai_reason, calls, responses>>
    /\ UNCHANGED <<parked, extraction>>

(***************************************************************************)
(* Line 130 and the next step of `for attempt in range(max_retries)`:      *)
(* time.sleep(wait_time) returns and the loop goes on, or ends when the    *)
(* range is used up.                                                       *)
(***************************************************************************)
Sleep ==
    /\ pc = "sleep"
    /\ sleeps' = Append(sleeps, wait_time)
    /\ attempt' = attempt + 1
    /\ pc' = IF attempt + 1 < max_retries THEN "call" ELSE "post"
    /\ UNCHANGED <<request, name, wait_time, prediction_result, openai_error_message,
                   ai_reason, calls, responses>>
    /\ UNCHANGED <<parked, extraction>>

PostLoop_with_reason ==
    /\ pc = "post"
    /\ IF prediction_result = "Realistic"
       THEN respond(200, [name |-> name, prediction |-> "Realistic", reason |-> " "])
       ELSE IF prediction_result = "Not Realistic"
       THEN respond(200, [name |-> name, prediction |-> "Not Realistic",
                          reason |-> IF ai_reason # None THEN ai_reason
                                     ELSE "Reason not provided by AI."])
       ELSE respond(500, [error |-> FailedPrefix \o
                             (IF openai_error_message # None
                              THEN openai_error_message ELSE UnknownError)])
    /\ UNCHANGED <<request, locals, calls, sleeps>>
    /\ UNCHANGED <<parked, extraction>>

PostLoop_with_attempts ==
    /\ pc = "post"
    /\ IF prediction_result = "Realistic"
       THEN respond(200, [name |-> name, prediction |-> "Realistic", reason |-> " ",
                          attempts |-> Len(calls)])
       ELSE IF prediction_result = "Not Realistic"
       THEN respond(200, [name |-> name, prediction |-> "Not Realistic",
                          attempts |-> Len(calls)])
       ELSE respond(500, [error |-> FailedPrefix \o
                             (IF openai_error_message # None
                              THEN openai_error_message ELSE UnknownError)])
    /\ UNCHANGED <<request, locals, calls, sleeps>>
    /\ UNCHANGED <<parked, extraction>>

(***************************************************************************)
(* Lines 136-154: the response after the loop.                             *)
(***************************************************************************)
PostLoop ==
    /\ pc = "post"
    /\ IF prediction_result = "Realistic"
       THEN respond(200, [name |-> name, prediction |-> "Realistic", reason |-> " "])
       ELSE IF prediction_result = "Not Realistic"
       THEN respond(200, [name |-> name, prediction |-> "Not Realistic"])
       ELSE respond(500, [error |-> FailedPrefix \o
                             (IF openai_error_message # None
                              THEN openai_error_message ELSE UnknownError)])
    /\ UNCHANGED <<request, locals, calls, sleeps>>
    /\ UNCHANGED <<parked, extraction>>

Next == Receive \/ Attempt \/ Sleep \/ PostLoop

Spec == Init /\ [][Next]_vars

(***************************************************************************)
(* The handler runs to its return: a thread that can take a step takes it. *)
(***************************************************************************)
FairSpec == Spec /\ WF_vars(Next)

(***************************************************************************)
(* A request has just arrived at a handler; no handler is running.         *)
(***************************************************************************)
arrives(req) ==
    /\ request = req
    /\ pc = "start"
    /\ name = <<>>
    /\ attempt = 0
    /\ wait_time = 0
    /\ prediction_result = None
    /\ openai_error_message = None
    /\ ai_reason = None
    /\ calls = <<>>
    /\ sleeps = <<>>
    /\ responses = <<>>

idle ==
    /\ request = NoRequest.request
    /\ pc = "none"
    /\ name = <<>>
    /\ attempt = 0
    /\ wait_time = 0
    /\ prediction_result = None
    /\ openai_error_message = None
    /\ ai_reason = None
    /\ calls = <<>>
    /\ sleeps = <<>>
    /\ responses = <<>>

Switch_sharing_the_error ==
    /\ parked.pc \notin {"none", "done"}
    /\ parked' = context
    /\ request' = parked.request
    /\ pc' = parked.pc
    /\ name' = parked.name
    /\ attempt' = parked.attempt
    /\ wait_time' = parked.wait_time
    /\ prediction_result' = parked.prediction_result
    /\ openai_error_message' = openai_error_message
    /\ ai_reason' = parked.ai_reason
    /\ calls' = parked.calls
    /\ sleeps' = parked.sleeps
    /\ responses' = parked.responses
    /\ UNCHANGED extraction

(***************************************************************************)
(* Line 163 (the host serves each request in a thread of its own) with     *)
(* lines 78-81 (the state of a handler is local to its call): the thread   *)
(* of the other request runs next.  A thread inside time.sleep, or inside  *)
(* any other step, can be put aside.                                       *)
(***************************************************************************)
Switch ==
    /\ parked.pc \notin {"none", "done"}
    /\ parked' = context
    /\ request' = parked.request
    /\ pc' = parked.pc
    /\ name' = parked.name
    /\ attempt' = parked.attempt
    /\ wait_time' = parked.wait_time
    /\ prediction_result' = parked.prediction_result
    /\ openai_error_message' = parked.openai_error_message
    /\ ai_reason' = parked.ai_reason
    /\ calls' = parked.calls
    /\ sleeps' = parked.sleeps
    /\ responses' = parked.responses
    /\ UNCHANGED extraction

(***************************************************************************)
(* Two requests served at once, their steps in any order.                  *)
(***************************************************************************)
ConcurrentRequests ==
    {[wire |-> "json", data |-> JObj([k \in {"name"} |-> JStr(s)])] :
         s \in {<<"a">>, <<" ", "b", "\t">>, <<" ">>}}
    \cup {[wire |-> "json", data |-> JObj(NoMembers)]}

ConcurrentOutcomes ==
    {[kind |-> "raise", msg |-> "Connection error.", content |-> <<>>]}
    \cup {[kind |-> "reply", msg |-> "", content |-> r] :
              r \in {Obj("\"Realistic\""), ObjReason("\"Not Realistic\""),
                     Obj("\"maybe\""), <<"[", "]">>}}

ConcurrentInit ==
    /\ \E req \in ConcurrentRequests : arrives(req)
    /\ parked \in {fresh(req) : req \in ConcurrentRequests}
    /\ extraction = NoExtraction

ConcurrentAttempt == Attempt /\ calls'[Len(calls')].outcome \in ConcurrentOutcomes

ConcurrentNext == Receive \/ ConcurrentAttempt \/ Sleep \/ PostLoop \/ Switch

ConcurrentSpec == ConcurrentInit /\ [][ConcurrentNext]_vars

(***************************************************************************)
(* Normalization on its own: names of up to MaxRawLen characters, taken    *)
(* through lines 40-81 and into the first completion call.                 *)
(***************************************************************************)
MaxRawLen == 5

NormalizeInit ==
    /\ \E s \in StringsUpTo(MaxRawLen) :
           arrives([wire |-> "json", data |-> JObj([k \in {"name"} |-> JStr(s)])])
    /\ parked = NoRequest
    /\ extraction = NoExtraction

NormalizeAttempt == Attempt /\ attempt = 0

NormalizeNext == Receive \/ NormalizeAttempt

NormalizeSpec == NormalizeInit /\ [][NormalizeNext]_vars

(***************************************************************************)
(* extract_json_from_response on its own: every text of up to MaxTextLen   *)
(* tokens, and the replies of the model with and without whitespace        *)
(* around them.                                                            *)
(***************************************************************************)
MaxTextLen == 5

TextTokens == {"'''json", "'''JSON", "'''", " ", "{", "}", "x"}

RECURSIVE TextsUpTo(_)
TextsUpTo(n) ==
    IF n = 0 THEN {<<>>}
    ELSE LET shorter == TextsUpTo(n - 1)
         IN  shorter \cup {Append(s, c) : s \in {t \in shorter : Len(t) = n - 1},
                                          c \in TextTokens}

Texts ==
    TextsUpTo(MaxTextLen) \cup Replies \cup {<<"\n">> \o r \o <<" ">> : r \in Replies}

ExtractInit ==
    /\ idle
    /\ parked = NoRequest
    /\ extraction \in {[text |-> t, returned |-> FALSE, value |-> <<>>] : t \in Texts}

Extract ==
    /\ ~extraction.returned
    /\ extraction' = [extraction EXCEPT !.returned = TRUE,
                                        !.value = extract_json_from_response(extraction.text)]
    /\ UNCHANGED <<request, pc, locals, calls, sleeps, responses, parked>>

ExtractNext == Extract

ExtractSpec == ExtractInit /\ [][ExtractNext]_vars

TypeOK ==
    /\ request \in Requests
    /\ pc \in {"start", "call", "sleep", "post", "done"}
    /\ attempt \in 0..(max_retries - 1)
    /\ prediction_result \in {None, "Realistic", "Not Realistic"}
    /\ Len(responses) <= 1

(***************************************************************************)
(* Observations used by the properties.                                    *)
(***************************************************************************)
done == pc = "done" /\ Len(responses) = 1

response == responses[1]

last_call == calls[Len(calls)]

all_raised(k) == \A i \in 1..k : calls[i].outcome.kind = "raise"

malformed_reply(call) ==
    call.outcome.kind = "reply" /\ call.outcome.content \notin ValidReplies

(***************************************************************************)
(* C1: a call that returns a reply which fails extraction or parsing, or   *)
(* whose parsed prediction is not one of the two recognized values         *)
(* (whatever the reply parses to, an object or not), is the last call of   *)
(* the request: the loop is left at once for the result mapping, without a *)
(* backoff sleep and without another call.                                 *)
(***************************************************************************)
C1_MalformedReplyIsNotRetried ==
    \A i \in 1..Len(calls) :
        malformed_reply(calls[i]) =>
            /\ i = Len(calls)
            /\ pc \in {"post", "done"}
            /\ Len(sleeps) = calls[i].attempt
            /\ (pc = "done" => response.status = 500 /\ response.body \in
                   {[error |-> FailedPrefix \o InvalidJsonResponse]} \cup
                   {[error |-> FailedPrefix \o InvalidPredictionPrefix \o v] :
                        v \in {"maybe", "realistic", "Realistic ", "1", None}})

(***************************************************************************)
(* C2: a request whose JSON body is an object without a `name` key, the    *)
(* empty object included, is answered 400 {"error": "No name provided"}.   *)
(***************************************************************************)
C2_MissingNameKeyIsNoNameProvided ==
    (/\ done
     /\ request.wire = "json"
     /\ request.data.t = "obj"
     /\ "name" \notin DOMAIN request.data.o)
    => response = [status |-> 400, body |-> [error |-> NoNameProvided]]

(***************************************************************************)
(* C3: a request whose body is not valid JSON is answered                  *)
(* 400 {"error": "Invalid JSON payload"}, not 500.                         *)
(***************************************************************************)
C3_UnparsableBodyIsBadRequest ==
    (done /\ request.wire = "badjson")
    => response = [status |-> 400, body |-> [error |-> InvalidJsonPayload]]

(***************************************************************************)
(* C4: when the completion call raises on all three attempts, the third    *)
(* failure itself returns 500 with the API error of that failure, after    *)
(* exactly three calls and the two sleeps that separate them; the result   *)
(* mapping after the loop is not run.                                      *)
(***************************************************************************)
C4_ThreeFailuresGiveModelError ==
    (Len(calls) = 3 /\ all_raised(3)) =>
        /\ pc = "done"
        /\ responses = <<[status |-> 500,
                          body |-> [error |-> ApiErrorPrefix \o calls[3].outcome.msg]]>>
        /\ sleeps = <<1, 2>>
        /\ prediction_result = None

C4_Witness ==
    /\ done
    /\ Len(calls) = 3 /\ all_raised(3)
    /\ calls[2].outcome.msg # calls[3].outcome.msg

(***************************************************************************)
(* C5: when the first k calls raise (k = 0, 1, 2) and call k+1 returns a   *)
(* valid payload, the request succeeds with HTTP 200 after exactly k       *)
(* backoff sleeps, of 1 second and then 2 seconds.                         *)
(***************************************************************************)
C5_SuccessAfterFailures ==
    \A k \in 0..2 :
        (/\ Len(calls) = k + 1
         /\ all_raised(k)
         /\ calls[k + 1].outcome.kind = "reply"
         /\ calls[k + 1].outcome.content \in ValidReplies)
        => /\ pc \in {"post", "done"}
           /\ sleeps = SubSeq(<<1, 2>>, 1, k)
           /\ prediction_result \in {"Realistic", "Not Realistic"}
           /\ (pc = "done" => Len(responses) = 1 /\ response.status = 200)

C5_Witness ==
    /\ done
    /\ response.status = 200
    /\ Len(calls) = 3 /\ all_raised(2)
    /\ sleeps = <<1, 2>>

(***************************************************************************)
(* C6: in every HTTP 200 response, `name` is the normalized name of the    *)
(* request, `prediction` is the validated prediction of the reply that     *)
(* ended the loop, and `reason` is present, with value " ", exactly when   *)
(* the prediction is "Realistic"; it is absent for "Not Realistic",        *)
(* whatever reason the model returned.                                     *)
(***************************************************************************)
C6_SuccessBody ==
    (done /\ response.status = 200) =>
        LET content == last_call.outcome.content
            expected == IF content \in RealisticReplies THEN "Realistic" ELSE "Not Realistic"
        IN  /\ last_call.outcome.kind = "reply"
            /\ content \in ValidReplies
            /\ response.body.name = normalize(request.data.o["name"].s)
            /\ response.body.prediction = expected
            /\ expected = "Realistic" =>
                   response.body = [name |-> name, prediction |-> "Realistic", reason |-> " "]
            /\ expected = "Not Realistic" =>
                   response.body = [name |-> name, prediction |-> "Not Realistic"]

C6_Witness ==
    /\ done
    /\ response.status = 200
    /\ response.body.prediction = "Not Realistic"
    /\ ai_reason = "too short"
    /\ request.data.o["name"].s # name

(***************************************************************************)
(* C7: a request with a non-empty normalized name always comes to its      *)
(* response, whatever the completion calls do, and no request is ever      *)
(* answered twice.                                                         *)
(***************************************************************************)
C7_ExactlyOneOutcome ==
    /\ [](Len(responses) <= 1)
    /\ (pc = "call") ~> done
    /\ [](done => [](done))

C7_Witness ==
    /\ done
    /\ name # <<>>
    /\ Len(calls) = 3
    /\ response.status = 500

(***************************************************************************)
(* C8: the message of a 500 response after the retry loop reports an API   *)
(* error exactly when the last call itself failed (raised), and a          *)
(* response-shape error exactly when the last call returned a reply that   *)
(* was malformed or out of schema.                                         *)
(***************************************************************************)
ShapeErrors ==
    {FailedPrefix \o InvalidJsonResponse}
    \cup {FailedPrefix \o InvalidPredictionPrefix \o v : v \in {"maybe", "realistic", "Realistic ", "1", None}}

C8_ErrorClassesAreToldApart ==
    (done /\ response.status = 500 /\ Len(calls) > 0) =>
        /\ last_call.outcome.kind = "raise" <=> response.body.error \notin ShapeErrors
        /\ last_call.outcome.kind # "raise" <=> response.body.error \in ShapeErrors

(***************************************************************************)
(* C9: a request answered 400 has made no completion call, and every       *)
(* completion call carries a name that is not empty and not blank.         *)
(***************************************************************************)
C9_NoCallForBadRequest ==
    /\ (done /\ response.status = 400) => Len(calls) = 0
    /\ \A i \in 1..Len(calls) :
           \E j \in 1..Len(calls[i].messages.user_name) :
               calls[i].messages.user_name[j] \notin Whitespace

C9_Witness ==
    /\ done
    /\ response = [status |-> 400, body |-> [error |-> NoNameProvided]]
    /\ request.data.t = "obj"
    /\ "name" \in DOMAIN request.data.o
    /\ Len(request.data.o["name"].s) > 1
    /\ calls = <<>>

(***************************************************************************)
(* C10 as stated: every request ends with one response of status 200, 400  *)
(* or 500, and a body that is a JSON array, or a `name` that is not a      *)
(* string, ends with 500 and the fixed generic message.                    *)
(***************************************************************************)
name_is_not_a_string ==
    /\ request.wire = "json"
    /\ request.data.t = "obj"
    /\ "name" \in DOMAIN request.data.o
    /\ request.data.o["name"].t # "str"

generic_500 == [status |-> 500, body |-> [error |-> UnexpectedServerError]]

handlers == {context, parked}

succeeded(h) == h.pc = "done" /\ Len(h.responses) = 1 /\ h.responses[1].status = 200

final_reply(h) == h.calls[Len(h.calls)].outcome.content

(***************************************************************************)
(* C11: retries do not show in a response.  Two handlings of the same      *)
(* request that end with HTTP 200 on the same valid reply return the same  *)
(* body, whatever the number of failed attempts before that reply; the     *)
(* body has no other keys than name, prediction and reason, and the error  *)
(* stored by the failed attempts has been cleared.                         *)
(***************************************************************************)
C11_RetriesAreTransparent ==
    \A h \in handlers : \A g \in handlers :
        (/\ succeeded(h) /\ succeeded(g)
         /\ h.request = g.request
         /\ final_reply(h) = final_reply(g))
        => /\ h.responses[1].body = g.responses[1].body
           /\ DOMAIN h.responses[1].body \subseteq {"name", "prediction", "reason"}
           /\ h.openai_error_message = None

C11_Witness ==
    /\ succeeded(context) /\ succeeded(parked)
    /\ request = parked.request
    /\ final_reply(context) = final_reply(parked)
    /\ Len(calls) = 1
    /\ Len(parked.calls) = 3
    /\ parked.sleeps = <<1, 2>>

(***************************************************************************)
(* C12: HTTP 200 is returned only when the reply that ended the loop is an *)
(* object whose prediction is exactly "Realistic" or "Not Realistic"; a    *)
(* prediction in another case, with a trailing space, of another value or  *)
(* type, null or missing fails validation and ends with HTTP 500.          *)
(***************************************************************************)
C12_OnlyExactPredictionsSucceed ==
    /\ (done /\ response.status = 200) =>
           /\ last_call.outcome.kind = "reply"
           /\ last_call.outcome.content \in ValidReplies
           /\ response.body.prediction \in {"Realistic", "Not Realistic"}
    /\ \A i \in 1..Len(calls) :
           (calls[i].outcome.kind = "reply"
            /\ calls[i].outcome.content \in InvalidPredictionReplies)
           => /\ i = Len(calls)
              /\ prediction_result = None
              /\ openai_error_message \in
                     {InvalidPredictionPrefix \o v :
                          v \in {"maybe", "realistic", "Realistic ", "1", None}}
              /\ pc = "done" => (Len(responses) = 1 /\ response.status = 500)

C12_Witness ==
    /\ done
    /\ response.status = 500
    /\ Len(calls) = 1
    /\ last_call.outcome.content = Obj("\"realistic\"")
    /\ openai_error_message = InvalidPredictionPrefix \o "realistic"

(***************************************************************************)
(* An attempt that ended in the handler of the outer try (lines 124-134):  *)
(* the call raised, or handling its reply raised an exception that is      *)
(* neither JSONDecodeError nor ValueError.                                 *)
(***************************************************************************)
ended_in_outer_handler(call) ==
    \/ call.outcome.kind \in {"raise", "no_content"}
    \/ call.outcome.kind = "reply" /\ call.outcome.content \in NotObjectReplies

verdict(content) == IF content \in RealisticReplies THEN "Realistic" ELSE "Not Realistic"

(***************************************************************************)
(* C13: an attempt whose reply parses to a recognized prediction is the    *)
(* last attempt of the request: no call and no sleep follows it, every     *)
(* attempt before it raised, and the response carries its verdict.         *)
(***************************************************************************)
C13_ValidReplyIsFinal ==
    \A i \in 1..Len(calls) :
        (calls[i].outcome.kind = "reply" /\ calls[i].outcome.content \in ValidReplies)
        => /\ i = Len(calls)
           /\ pc \in {"post", "done"}
           /\ Len(sleeps) = i - 1
           /\ \A j \in 1..(i - 1) : ended_in_outer_handler(calls[j])
           /\ prediction_result = verdict(calls[i].outcome.content)
           /\ pc = "done" =>
                  /\ Len(responses) = 1
                  /\ response.status = 200
                  /\ response.body.prediction = verdict(calls[i].outcome.content)

C13_Witness ==
    /\ done
    /\ Len(calls) = 2
    /\ calls[1].outcome.kind = "raise"
    /\ calls[2].outcome.content \in NotRealisticReplies
    /\ response.status = 200
    /\ sleeps = <<1>>

(***************************************************************************)
(* The name as the request carries it.                                     *)
(***************************************************************************)
raw_name == request.data.o["name"].s

(***************************************************************************)
(* C14: normalization is idempotent: normalizing the normalized name gives *)
(* it back unchanged.                                                      *)
(***************************************************************************)
C14_NormalizeIsIdempotent ==
    pc # "start" => normalize(name) = name

C14_Witness ==
    /\ pc = "call"
    /\ Len(raw_name) = MaxRawLen
    /\ Len(name) = 3
    /\ name[2] = " "
    /\ normalize(name) = name

(***************************************************************************)
(* The words of a string (its maximal runs of characters that are not      *)
(* whitespace), and words put together with one space between them.        *)
(***************************************************************************)
RECURSIVE first_word(_)
first_word(s) ==
    IF s = <<>> \/ Head(s) \in Whitespace THEN <<>>
    ELSE <<Head(s)>> \o first_word(Tail(s))

RECURSIVE words(_)
words(s) ==
    IF s = <<>> THEN <<>>
    ELSE IF Head(s) \in Whitespace THEN words(Tail(s))
    ELSE <<first_word(s)>> \o words(SubSeq(s, Len(first_word(s)) + 1, Len(s)))

RECURSIVE joined(_)
joined(ws) ==
    IF ws = <<>> THEN <<>>
    ELSE IF Len(ws) = 1 THEN ws[1]
    ELSE ws[1] \o <<" ">> \o joined(Tail(ws))

not_blank(c) == c \notin Whitespace

(***************************************************************************)
(* C15: the normalized name is the words of the submitted name with one    *)
(* space between them: no whitespace at its ends, no two whitespace        *)
(* characters side by side, no whitespace but the space, the other         *)
(* characters unchanged and in order; and it is this name that every       *)
(* prompt carries.                                                         *)
(***************************************************************************)
C15_NormalizedNameShape ==
    pc # "start" =>
        /\ name = joined(words(raw_name))
        /\ name # <<>> => (name[1] \notin Whitespace /\ name[Len(name)] \notin Whitespace)
        /\ \A i \in 1..Len(name) :
               name[i] \in Whitespace =>
                   (name[i] = " " /\ i < Len(name) /\ name[i + 1] \notin Whitespace)
        /\ SelectSeq(name, not_blank) = SelectSeq(raw_name, not_blank)
        /\ \A i \in 1..Len(calls) : calls[i].messages.user_name = joined(words(raw_name))

C15_Witness ==
    /\ Len(calls) = 1
    /\ raw_name = <<" ", "b", "\t", " ", "a">>
    /\ calls[1].messages.user_name = <<"b", " ", "a">>

(***************************************************************************)
(* A fenced object in a text, said with positions: the fence marker at i,  *)
(* only whitespace up to "{" at p, "}" at q, then only whitespace up to    *)
(* closing backticks.  The trimmed text is the text without the whitespace *)
(* at its two ends.                                                        *)
(***************************************************************************)
blank_between(text, a, b) == \A k \in a..b : text[k] \in Whitespace

fence_around(text, i, p, q) ==
    /\ text[i] \in {"'''json", "'''JSON"}
    /\ i < p /\ blank_between(text, i + 1, p - 1)
    /\ text[p] = "{"
    /\ p < q /\ text[q] = "}"
    /\ \E r \in (q + 1)..Len(text) :
           blank_between(text, q + 1, r - 1) /\ text[r] \in {"'''json", "'''JSON", "'''"}

has_fence(text) ==
    \E i, p, q \in 1..Len(text) : fence_around(text, i, p, q)

is_trimmed(text, t) ==
    /\ \E a \in 1..(Len(text) + 1), b \in 0..Len(text) :
           /\ t = SubSeq(text, a, b)
           /\ blank_between(text, 1, a - 1)
           /\ blank_between(text, b + 1, Len(text))
    /\ t # <<>> => (t[1] \notin Whitespace /\ t[Len(t)] \notin Whitespace)

in_braces(t) == t # <<>> /\ t[1] = "{" /\ t[Len(t)] = "}"

fenced_object_is_extracted ==
    \E i, p, q \in 1..Len(extraction.text) :
        /\ fence_around(extraction.text, i, p, q)
        /\ \A j, u, v \in 1..Len(extraction.text) :
               fence_around(extraction.text, j, u, v) => (i <= j /\ (j = i => q <= v))
        /\ extraction.value = SubSeq(extraction.text, p, q)

(***************************************************************************)
(* C16, as the specification words it: a fenced object is taken out of its *)
(* fence; otherwise a trimmed text in braces is the result; otherwise the  *)
(* text comes back as it was given.                                        *)
(***************************************************************************)
C16_RawTextPassesThrough ==
    extraction.returned =>
        IF has_fence(extraction.text) THEN fenced_object_is_extracted
        ELSE IF \E t \in {strip(extraction.text)} : in_braces(t)
             THEN is_trimmed(extraction.text, extraction.value)
             ELSE extraction.value = extraction.text

(***************************************************************************)
(* C16, amended: extract_json_from_response chooses with the fence first:  *)
(* when the text holds a fenced object (fence marker in either case), the  *)
(* result is the object of the leftmost fence up to the first "}" after    *)
(* which the fence closes, without fence or surrounding whitespace;        *)
(* otherwise the result is the trimmed text, whether it is in braces or    *)
(* not.  A fenced {"prediction":"Realistic"} yields the bare object, and a *)
(* bare {"prediction":"Not Realistic","reason":"too short"} comes back     *)
(* unchanged and parses to a recognized prediction.                        *)
(***************************************************************************)
C16_ExtractionChoosesFenceFirst ==
    extraction.returned =>
        /\ IF has_fence(extraction.text) THEN fenced_object_is_extracted
           ELSE is_trimmed(extraction.text, extraction.value)
        /\ \A fence \in {"'''json", "'''JSON"} :
               extraction.text = Fenced(fence, Obj("\"Realistic\""))
                   => extraction.value = Obj("\"Realistic\"")
        /\ extraction.text = ObjReason("\"Not Realistic\"") =>
               /\ extraction.value = extraction.text
               /\ json_loads(extraction.value).ok
               /\ dict_get(json_loads(extraction.value), "prediction") = "Not Realistic"

C16_Witness ==
    /\ extraction.returned
    /\ extraction.text = <<" ", "x", "}", " ">>
    /\ extraction.value = <<"x", "}">>

(***************************************************************************)
(* C17: whatever the completion calls do, a request issues at most 3 calls *)
(* and sleeps at most 2 times.                                             *)
(***************************************************************************)
C17_CallsAndSleepsAreBounded ==
    /\ Len(calls) <= 3
    /\ Len(sleeps) <= 2

C17_Witness ==
    /\ pc = "done"
    /\ Len(calls) = 3
    /\ Len(sleeps) = 2
    /\ \A i \in 1..3 : ended_in_outer_handler(calls[i])

(***************************************************************************)
(* What a handler does when it serves its request alone, said from the     *)
(* request and the outcomes of its own calls only: the calls it makes (one *)
(* more after every attempt that ended in the outer handler, up to three), *)
(* its sleeps (1, then 2) and its response.                                *)
(***************************************************************************)
alone_calls(h) ==
    /\ Len(h.calls) <= 3
    /\ \A i \in 1..(Len(h.calls) - 1) : ended_in_outer_handler(h.calls[i])
    /\ (h.pc = "done" /\ Len(h.calls) \in 1..2)
           => ~ended_in_outer_handler(h.calls[Len(h.calls)])
    /\ \A i \in 1..Len(h.calls) :
           /\ h.calls[i].attempt = i - 1
           /\ h.calls[i].messages = prompt(joined(words(h.request.data.o["name"].s)))

alone_sleeps(h) ==
    /\ \E n \in 0..2 : h.sleeps = SubSeq(<<1, 2>>, 1, n)
    /\ h.pc = "done" => Len(h.sleeps) = (IF h.calls = <<>> THEN 0 ELSE Len(h.calls) - 1)

alone_response(h) ==
    IF h.calls = <<>>
    THEN IF "name" \in DOMAIN h.request.data.o
         THEN [status |-> 400, body |-> [error |-> NoNameProvided]]
         ELSE [status |-> 400, body |-> [error |-> InvalidJsonPayload]]
    ELSE LET outcome == h.calls[Len(h.calls)].outcome
             sent == joined(words(h.request.data.o["name"].s))
         IN  CASE outcome.kind = "raise" ->
                    [status |-> 500, body |-> [error |-> ApiErrorPrefix \o outcome.msg]]
               [] outcome.kind = "reply" /\ outcome.content = <<"[", "]">> ->
                    [status |-> 500,
                     body |-> [error |-> ApiErrorPrefix
                                           \o "'list' object has no attribute 'get'"]]
               [] outcome.kind = "reply" /\ outcome.content = Obj("\"maybe\"") ->
                    [status |-> 500,
                     body |-> [error |-> FailedPrefix \o InvalidPredictionPrefix \o "maybe"]]
               [] outcome.kind = "reply" /\ outcome.content = Obj("\"Realistic\"") ->
                    [status |-> 200,
                     body |-> [name |-> sent, prediction |-> "Realistic", reason |-> " "]]
               [] outcome.kind = "reply"
                      /\ outcome.content = ObjReason("\"Not Realistic\"") ->
                    [status |-> 200,
                     body |-> [name |-> sent, prediction |-> "Not Realistic"]]

can_step == ENABLED (Receive \/ ConcurrentAttempt \/ Sleep \/ PostLoop)

(***************************************************************************)
(* C18: two requests served at once do not affect each other.  Whatever    *)
(* the order of their steps, each handler makes the calls, sleeps the      *)
(* sleeps and sends the response that its own request and the outcomes of  *)
(* its own calls give when it is served alone; and while one handler is in *)
(* a backoff sleep the other can take its next step.                       *)
(***************************************************************************)
C18_ConcurrentRequestsAreIndependent ==
    /\ \A h \in handlers :
           h.pc # "none" =>
               /\ alone_calls(h)
               /\ alone_sleeps(h)
               /\ Len(h.responses) = (IF h.pc = "done" THEN 1 ELSE 0)
               /\ h.pc = "done" => h.responses[1] = alone_response(h)
    /\ (parked.pc = "sleep" /\ pc \notin {"none", "done"}) => can_step
    /\ (pc = "sleep" /\ parked.pc \notin {"none", "done"}) => ENABLED Switch

C18_Witness ==
    /\ parked.pc = "sleep"
    /\ Len(parked.calls) = 2
    /\ pc = "done"
    /\ Len(calls) = 2
    /\ sleeps = <<1>>
    /\ responses[1].status = 200
    /\ request # parked.request

(***************************************************************************)
(* C19: when control reaches the result mapping after the loop, exactly    *)
(* one of prediction_result and openai_error_message is set.  The loop is  *)
(* left by break or by the return of the third failure, never by running   *)
(* out of iterations: a handler that sleeps has an iteration left, and the *)
(* mapping is reached straight from a call whose reply did not reach the   *)
(* outer handler.  No response carries the fallback text, and a response   *)
(* with status 200 leaves no stored error.                                 *)
(***************************************************************************)
C19_ExactlyOneResultAfterLoop ==
    /\ pc = "post" =>
           /\ (prediction_result # None) # (openai_error_message # None)
           /\ calls # <<>>
           /\ ~ended_in_outer_handler(calls[Len(calls)])
    /\ pc = "sleep" => attempt + 1 < 3
    /\ \A i \in 1..Len(responses) :
           /\ responses[i].body # [error |-> FailedPrefix \o UnknownError]
           /\ responses[i].status = 200 =>
                  (openai_error_message = None /\ prediction_result # None)

C19_Witness ==
    /\ pc = "post"
    /\ Len(calls) = 3
    /\ prediction_result = "Not Realistic"
    /\ openai_error_message = None

(***************************************************************************)
(* C20: in a request that reaches the retry loop, calls and sleeps         *)
(* alternate.  Every call but the last ended in the outer handler; a sleep *)
(* is pending only after such a call that is not the third, with one sleep *)
(* fewer than calls done and nothing sent; a call is issued with as many   *)
(* sleeps done as calls; and after the loop, and at the response, there is *)
(* one sleep fewer than calls, so every sleep was followed by a call.      *)
(***************************************************************************)
C20_CallsAndSleepsAlternate ==
    /\ \A i \in 1..(Len(calls) - 1) : ended_in_outer_handler(calls[i])
    /\ calls = <<>> => sleeps = <<>>
    /\ pc = "call" => Len(sleeps) = Len(calls)
    /\ pc = "sleep" =>
           /\ Len(calls) \in 1..2
           /\ ended_in_outer_handler(calls[Len(calls)])
           /\ Len(sleeps) = Len(calls) - 1
           /\ responses = <<>>
    /\ (pc \in {"post", "done"} /\ calls # <<>>) => Len(sleeps) = Len(calls) - 1
    /\ responses # <<>> => pc = "done"

C20_Witness ==
    /\ pc = "done"
    /\ Len(calls) = 3
    /\ Len(sleeps) = 2
    /\ responses[1].status = 200

====
